---- MODULE Spec2Model ----
(***************************************************************************)
(* A model of pylibust: the attribute codecs, the note and file classes,   *)
(* the UST reader and writer (ust.py) and the NiaoNiao converter           *)
(* (converter.py).                                                         *)
(*                                                                         *)
(* A Python str is a sequence of one-character strings.  A Python value is *)
(* a record [k, n, s, l]: k is the type name (or the name of the exception *)
(* that was raised instead of a value), n the number of an int, bool or    *)
(* float (a float is held in hundredths), s the characters of a str and l  *)
(* the items of a list-like object.  A dict is the sequence of its         *)
(* [key, val] entries in insertion order.                                  *)
(***************************************************************************)
EXTENDS Integers, Sequences, FiniteSets, TLC

VARIABLES
    \* attribute codecs: one object built from a string, printed, rebuilt
    cCodec, cIn, cVal, cText, cBack, cPc,
    \* a ustFile object bound to the name s, and one call made on it
    sObj, sName, sCall, sPrev, sRet, sOut, sPc,
    \* a UST file: what it was written from, its text, the locals of _parser
    \* while it reads the file, what _parser returns and what open() builds
    pIn, pFile, pRows, notes, singleNote, version, setting,
    verRecord, setRecord, noteRecord, noteCount, RecPos,
    pRet, pLoaded, pErr, pPc,
    \* a call of nn2ust: its input, the iterator and the locals, the result
    nnIn, nnIter, ustHeader, ustNoteList, noteLength, initialParse,
    nnRet, nnErr, nnPc

codecVars == <<cCodec, cIn, cVal, cText, cBack, cPc>>
seqVars == <<sObj, sName, sCall, sPrev, sRet, sOut, sPc>>
parserLocals == <<pRows, notes, singleNote, version, setting,
                  verRecord, setRecord, noteRecord, noteCount, RecPos>>
parserVars == <<pIn, pFile, parserLocals, pRet, pLoaded, pErr, pPc>>
nnVars == <<nnIn, nnIter, ustHeader, ustNoteList, noteLength, initialParse,
            nnRet, nnErr, nnPc>>
vars == <<codecVars, seqVars, parserVars, nnVars>>

----------------------------------------------------------------------------
(* Bounds of the model *)

\* the longest string handed to a codec has this many fields
MaxFields == 3
\* the longest note list of a ustFile object a method is called on
MaxNotes == 3
\* the most note blocks of a UST file
MaxFileNotes == 2
\* the most records of a NiaoNiao document
MaxRecords == 2

----------------------------------------------------------------------------
(* Python values *)

Val(kind, num, str, items) == [k |-> kind, n |-> num, s |-> str, l |-> items]
PyNone == Val("None", 0, <<>>, <<>>)
PyInt(i) == Val("int", i, <<>>, <<>>)
PyFloat(h) == Val("float", h, <<>>, <<>>)
PyBool(b) == Val("bool", IF b THEN 1 ELSE 0, <<>>, <<>>)
PyStr(chars) == Val("str", 0, chars, <<>>)
PyList(items) == Val("list", 0, <<>>, items)
Raise(exc) == Val(exc, 0, <<>>, <<>>)

Exceptions == {"SyntaxError", "ValueError", "TypeError", "AttributeError",
               "KeyError", "IndexError", "ZeroDivisionError"}
IsExc(v) == v.k \in Exceptions
IsNumber(v) == v.k \in {"int", "float", "bool"}

\* the first exception among the items of a sequence of values
FirstExc(items) ==
    items[CHOOSE i \in 1..Len(items) :
              IsExc(items[i]) /\ \A j \in 1..(i-1) : ~IsExc(items[j])]

----------------------------------------------------------------------------
(* str methods *)

Digits == {"0","1","2","3","4","5","6","7","8","9"}
Whitespace == {" ", "\n", "\t", "\r"}

RECURSIVE lstrip(_)
lstrip(s) == IF s # <<>> /\ Head(s) \in Whitespace THEN lstrip(Tail(s)) ELSE s

RECURSIVE rstrip(_)
rstrip(s) ==
    IF s # <<>> /\ s[Len(s)] \in Whitespace
    THEN rstrip(SubSeq(s, 1, Len(s) - 1)) ELSE s

strip(s) == rstrip(lstrip(s))

\* s.split(sep) for a one-character sep: "" splits into [""]
RECURSIVE split(_, _)
split(s, sep) ==
    IF \A i \in 1..Len(s) : s[i] # sep
    THEN <<s>>
    ELSE LET i == CHOOSE i \in 1..Len(s) :
                      s[i] = sep /\ \A j \in 1..(i-1) : s[j] # sep
         IN  <<SubSeq(s, 1, i-1)>> \o split(SubSeq(s, i+1, Len(s)), sep)

\* sep.join(parts)
RECURSIVE join(_, _)
join(parts, sep) ==
    IF parts = <<>> THEN <<>>
    ELSE IF Len(parts) = 1 THEN parts[1]
    ELSE parts[1] \o sep \o join(Tail(parts), sep)

----------------------------------------------------------------------------
(* Numeric literals: eval() of a literal and str() of a number.  eval is   *)
(* modelled on the literals the inputs of the model are written in: a      *)
(* decimal integer, a decimal with one or two digits after the point, each *)
(* with an optional minus sign, and True / False.  Any other text of the   *)
(* inputs ("", "%", a word) is not a Python expression and raises.         *)

DigitVal(c) ==
    CASE c = "0" -> 0 [] c = "1" -> 1 [] c = "2" -> 2 [] c = "3" -> 3
      [] c = "4" -> 4 [] c = "5" -> 5 [] c = "6" -> 6 [] c = "7" -> 7
      [] c = "8" -> 8 [] c = "9" -> 9

DigitChar(d) == <<"0","1","2","3","4","5","6","7","8","9">>[d + 1]

RECURSIVE DecVal(_)
DecVal(s) ==
    IF s = <<>> THEN 0
    ELSE DecVal(SubSeq(s, 1, Len(s) - 1)) * 10 + DigitVal(s[Len(s)])

IsDigits(s) == s # <<>> /\ \A i \in 1..Len(s) : s[i] \in Digits

\* a decimal integer literal: no leading zero unless it is all zeros
IsIntLit(s) ==
    IsDigits(s) /\ (s[1] # "0" \/ \A i \in 1..Len(s) : s[i] = "0")

IsFloatLit(s) ==
    \E p \in 2..(Len(s) - 1) :
        /\ s[p] = "."
        /\ IsDigits(SubSeq(s, 1, p-1))
        /\ IsDigits(SubSeq(s, p+1, Len(s)))
        /\ Len(s) - p \in {1, 2}

FloatVal(s) ==
    LET p == CHOOSE p \in 2..(Len(s) - 1) : s[p] = "."
        frac == SubSeq(s, p+1, Len(s))
    IN  DecVal(SubSeq(s, 1, p-1)) * 100
          + (IF Len(frac) = 1 THEN DecVal(frac) * 10 ELSE DecVal(frac))

eval(s) ==
    CASE IsIntLit(s) -> PyInt(DecVal(s))
      [] IsFloatLit(s) -> PyFloat(FloatVal(s))
      [] s # <<>> /\ s[1] = "-" /\ IsIntLit(Tail(s)) -> PyInt(0 - DecVal(Tail(s)))
      [] s # <<>> /\ s[1] = "-" /\ IsFloatLit(Tail(s)) ->
             PyFloat(0 - FloatVal(Tail(s)))
      [] s = <<"T","r","u","e">> -> PyBool(TRUE)
      [] s = <<"F","a","l","s","e">> -> PyBool(FALSE)
      [] OTHER -> Raise("SyntaxError")

RECURSIVE IntStr(_)
IntStr(i) ==
    IF i < 0 THEN <<"-">> \o IntStr(0 - i)
    ELSE IF i < 10 THEN <<DigitChar(i)>>
    ELSE IntStr(i \div 10) \o <<DigitChar(i % 10)>>

\* repr of a float held in hundredths: 120.0, 1.2, 1.25
FloatStr(h) ==
    LET a == IF h < 0 THEN 0 - h ELSE h
        frac == a % 100
    IN  (IF h < 0 THEN <<"-">> ELSE <<>>) \o IntStr(a \div 100) \o <<".">>
          \o (IF frac % 10 = 0 THEN <<DigitChar(frac \div 10)>>
              ELSE <<DigitChar(frac \div 10), DigitChar(frac % 10)>>)

\* str() of a value that is not one of the sequence classes
ScalarStr(v) ==
    CASE v.k = "int" -> IntStr(v.n)
      [] v.k = "float" -> FloatStr(v.n)
      [] v.k = "bool" -> IF v.n = 1 THEN <<"T","r","u","e">> ELSE <<"F","a","l","s","e">>
      [] v.k = "str" -> v.s
      [] v.k = "None" -> <<"N","o","n","e">>

----------------------------------------------------------------------------
(* The sequence classes attributeSeq, envelopeSeq and PBSSeq.  The         *)
(* constructor calls .split on its argument, which only a str has.         *)

attributeSeq(attributeStr) ==
    IF attributeStr.k # "str" THEN Raise("AttributeError")
    ELSE LET attributeList == split(attributeStr.s, ",")
             items == [i \in 1..Len(attributeList) |->
                          IF attributeList[i] = <<>> THEN PyInt(0)
                          ELSE eval(attributeList[i])]
         IN  IF \E i \in 1..Len(items) : IsExc(items[i]) THEN FirstExc(items)
             ELSE Val("attributeSeq", 0, <<>>, items)

envelopeSeq(envelope) ==
    IF envelope.k # "str" THEN Raise("AttributeError")
    ELSE LET envelopeList == split(envelope.s, ",")
             items == [i \in 1..Len(envelopeList) |->
                          IF envelopeList[i] = <<"%">> THEN PyStr(<<"%">>)
                          ELSE eval(envelopeList[i])]
         IN  IF \E i \in 1..Len(items) : IsExc(items[i]) THEN FirstExc(items)
             ELSE Val("envelopeSeq", 0, <<>>, items)

\* a slip of the bound: two parameters are refused as well
PBSSeq_TwoRefused(PBS) ==
    IF PBS.k # "str" THEN Raise("AttributeError")
    ELSE LET PBSList == split(PBS.s, ";")
             items == [i \in 1..Len(PBSList) |->
                          IF PBSList[i] = <<>> THEN PyInt(0)
                          ELSE eval(PBSList[i])]
         IN  IF \E i \in 1..Len(items) : IsExc(items[i]) THEN FirstExc(items)
             ELSE IF Len(items) >= 2 THEN Raise("ValueError")
             ELSE Val("PBSSeq", 0, <<>>, items)

PBSSeq(PBS) ==
    IF PBS.k # "str" THEN Raise("AttributeError")
    ELSE LET PBSList == split(PBS.s, ";")
             items == [i \in 1..Len(PBSList) |->
                          IF PBSList[i] = <<>> THEN PyInt(0)
                          ELSE eval(PBSList[i])]
         IN  IF \E i \in 1..Len(items) : IsExc(items[i]) THEN FirstExc(items)
             ELSE IF Len(items) > 2 THEN Raise("ValueError")
             ELSE Val("PBSSeq", 0, <<>>, items)

ItemStrs(v) == [i \in 1..Len(v.l) |-> ScalarStr(v.l[i])]

attributeSeq_str(v) == join(ItemStrs(v), <<",">>)

\* PBSSeq without its own __str__: the inherited one joins with a comma
PBSSeq_str_Inherited(v) == join(ItemStrs(v), <<",">>)

PBSSeq_str(v) == join(ItemStrs(v), <<";">>)

\* str(value)
str(v) ==
    CASE v.k \in {"attributeSeq", "envelopeSeq"} -> attributeSeq_str(v)
      [] v.k = "PBSSeq" -> PBSSeq_str(v)
      [] OTHER -> ScalarStr(v)

\* the class named by a codec applied to an argument
Construct(codec, arg) ==
    CASE codec = "attributeSeq" -> attributeSeq(arg)
      [] codec = "envelopeSeq" -> envelopeSeq(arg)
      [] codec = "PBSSeq" -> PBSSeq(arg)

----------------------------------------------------------------------------
(* Inputs of the codecs: up to MaxFields fields joined by the separator of *)
(* the class.                                                              *)

Codecs == {"attributeSeq", "envelopeSeq", "PBSSeq"}
Separator(codec) == IF codec = "PBSSeq" THEN <<";">> ELSE <<",">>

FieldTexts == { <<>>, <<"0">>, <<"0","0">>, <<"5">>, <<"-","3">>, <<"1","2">>, <<"1",".","5">>, <<"2",".","5","0">>, <<"%">> }

FieldLists == UNION { [1..n -> FieldTexts] : n \in 1..MaxFields }

CodecIdle ==
    /\ cCodec = "none" /\ cIn = PyNone /\ cVal = PyNone
    /\ cText = PyNone /\ cBack = PyNone /\ cPc = "idle"

CodecInit ==
    /\ cCodec \in Codecs
    /\ \E f \in FieldLists : cIn = PyStr(join(f, Separator(cCodec)))
    /\ cVal = PyNone /\ cText = PyNone /\ cBack = PyNone
    /\ cPc = "new"

\* v = cls(text)
CodecConstruct ==
    /\ cPc = "new"
    /\ cVal' = Construct(cCodec, cIn)
    /\ cPc' = IF IsExc(cVal') THEN "raised" ELSE "built"
    /\ UNCHANGED <<cCodec, cIn, cText, cBack>>

\* text = str(v)
CodecStr ==
    /\ cPc = "built"
    /\ cText' = PyStr(str(cVal))
    /\ cPc' = "printed"
    /\ UNCHANGED <<cCodec, cIn, cVal, cBack>>

\* w = cls(text)
CodecReconstruct ==
    /\ cPc = "printed"
    /\ cBack' = Construct(cCodec, cText)
    /\ cPc' = "rebuilt"
    /\ UNCHANGED <<cCodec, cIn, cVal, cText>>

CodecNext ==
    \/ CodecConstruct /\ UNCHANGED <<seqVars, parserVars, nnVars>>
    \/ CodecStr /\ UNCHANGED <<seqVars, parserVars, nnVars>>
    \/ CodecReconstruct /\ UNCHANGED <<seqVars, parserVars, nnVars>>

----------------------------------------------------------------------------
(* dict: the entries in insertion order *)

Entry(key, value) == [key |-> key, val |-> value]
Keys(d) == {d[i].key : i \in 1..Len(d)}
contains(d, key) == key \in Keys(d)
KeyIndex(d, key) == CHOOSE i \in 1..Len(d) : d[i].key = key

\* d[key]
getitem(d, key) ==
    IF contains(d, key) THEN d[KeyIndex(d, key)].val ELSE Raise("KeyError")

\* d[key] = value: a known key keeps its place
setitem(d, key, value) ==
    IF contains(d, key)
    THEN [d EXCEPT ![KeyIndex(d, key)].val = value]
    ELSE Append(d, Entry(key, value))

----------------------------------------------------------------------------
(* ustNote: a wrapper of the attribute dict, modelled as that dict *)

\* a rest test that forgets the lower-case marker
ustNote_bool_UpperOnly(note) ==
    getitem(note, <<"L","y","r","i","c">>).s \notin { <<>>, <<" ">>, <<"R">> }

ustNote_bool(note) ==
    getitem(note, <<"L","y","r","i","c">>).s \notin { <<>>, <<" ">>, <<"r">>, <<"R">> }

----------------------------------------------------------------------------
(* ustFile methods on the note list *)

\* round() that rounds a tie away from zero upwards
round_HalfUp(num, den) == (2 * num + den) \div (2 * den)

\* round(num / den) for den > 0: Python rounds a tie to the even integer
round(num, den) ==
    LET q == num \div den
        r == num % den
    IN  IF 2 * r < den THEN q
        ELSE IF 2 * r > den THEN q + 1
        ELSE IF q % 2 = 0 THEN q ELSE q + 1

\* (round(length / standard)) * standard, an int whatever length is
QuantizedLength(length, standard) ==
    IF length.k = "float"
    THEN PyInt(round(length.n, 100 * standard) * standard)
    ELSE PyInt(round(length.n, standard) * standard)

\* quantize: the division raises at the first note when standard is 0; the
\* "del note" of a negative length unbinds the loop variable and leaves
\* the list as it is
quantize(noteList, standard) ==
    IF standard = 0 /\ noteList # <<>>
    THEN [noteList |-> noteList, ret |-> Raise("ZeroDivisionError")]
    ELSE [noteList |->
              [i \in 1..Len(noteList) |->
                  setitem(noteList[i], <<"L","e","n","g","t","h">>,
                          QuantizedLength(getitem(noteList[i], <<"L","e","n","g","t","h">>),
                                          standard))],
          ret |-> PyNone]

Max(S) == CHOOSE x \in S : \A y \in S : y <= x
Min(S) == CHOOSE x \in S : \A y \in S : x <= y

\* range: max() of an empty list raises ValueError
range(noteList) ==
    LET pitches == SelectSeq(noteList, ustNote_bool)
        nums == {getitem(pitches[i], <<"N","o","t","e","N","u","m">>).n : i \in 1..Len(pitches)}
    IN  IF pitches = <<>> THEN Raise("ValueError")
        ELSE Val("tuple", 0, <<>>, <<PyInt(Max(nums)), PyInt(Min(nums))>>)

\* list + other: a list concatenates with a list only
list_add(noteList, other) ==
    IF other.kind = "list"
    THEN [ret |-> PyNone, out |-> noteList \o other.notes]
    ELSE [ret |-> Raise("TypeError"), out |-> <<>>]

\* __add__
ustFile_add(noteList, other) ==
    IF other.kind # "ustFile"
    THEN [ret |-> Raise("TypeError"), out |-> <<>>]
    ELSE list_add(noteList, other)

----------------------------------------------------------------------------
(* One call on a ustFile object s.  The note lists and operands are drawn  *)
(* from a few notes: voiced ones and each kind of rest, lengths on both    *)
(* sides of a tie, negative lengths and a float length.                    *)

Note(length, lyric, noteNum) ==
    << Entry(<<"L","e","n","g","t","h">>, length), Entry(<<"L","y","r","i","c">>, PyStr(lyric)),
       Entry(<<"N","o","t","e","N","u","m">>, PyInt(noteNum)) >>

Notes ==
    { Note(PyInt(121), <<"a">>, 60),
      Note(PyInt(180), <<"R">>, 72),
      Note(PyInt(60), <<"l","a">>, 64),
      Note(PyInt(0 - 180), <<"r">>, 48),
      Note(PyInt(300), <<>>, 67),
      Note(PyInt(0 - 60), <<" ">>, 50),
      Note(PyFloat(9000), <<"b">>, 55) }

NoteLists == UNION { [1..n -> Notes] : n \in 0..MaxNotes }

Standards == {0, 7, 60, 120}

Operand(kind, noteList) == [kind |-> kind, notes |-> noteList]
NoOperand == Operand("none", <<>>)
Operands ==
    { Operand("ustFile", <<>>),
      Operand("ustFile", <<Note(PyInt(480), <<"c">>, 62)>>),
      Operand("ustFile", <<Note(PyInt(480), <<"c">>, 62),
                           Note(PyInt(240), <<"R">>, 60)>>),
      Operand("list", <<Note(PyInt(480), <<"c">>, 62)>>),
      Operand("int", <<>>),
      Operand("None", <<>>) }

Call(op, standard, other) == [op |-> op, standard |-> standard, other |-> other]

SeqIdle ==
    /\ sObj = <<>> /\ sName = "none" /\ sCall = Call("none", 0, NoOperand)
    /\ sPrev = <<>> /\ sRet = PyNone /\ sOut = <<>> /\ sPc = "idle"

\* s = ustFile(notes)
SeqInit ==
    /\ sObj \in NoteLists
    /\ sName = "ustFile"
    /\ sCall = Call("none", 0, NoOperand)
    /\ sPrev = <<>> /\ sRet = PyNone /\ sOut = <<>>
    /\ sPc = "new"

\* s.quantize(standard)
SeqQuantize ==
    /\ sPc = "new"
    /\ \E standard \in Standards :
          LET r == quantize(sObj, standard)
          IN  /\ sCall' = Call("quantize", standard, NoOperand)
              /\ sObj' = r.noteList
              /\ sRet' = r.ret
    /\ sPrev' = sObj
    /\ sPc' = "called"
    /\ UNCHANGED <<sName, sOut>>

\* s.range()
SeqRange ==
    /\ sPc = "new"
    /\ sCall' = Call("range", 0, NoOperand)
    /\ sRet' = range(sObj)
    /\ sPrev' = sObj
    /\ sPc' = "called"
    /\ UNCHANGED <<sObj, sName, sOut>>

\* s + other
SeqAdd ==
    /\ sPc = "new"
    /\ \E other \in Operands :
          LET r == ustFile_add(sObj, other)
          IN  /\ sCall' = Call("__add__", 0, other)
              /\ sRet' = r.ret
              /\ sOut' = r.out
    /\ sPrev' = sObj
    /\ sPc' = "called"
    /\ UNCHANGED <<sObj, sName>>

\* s += other: the list is extended from the iterable other, and the name
\* s is bound to what __iadd__ returns, which is None
SeqIAdd ==
    /\ sPc = "new"
    /\ \E other \in Operands :
          /\ sCall' = Call("__iadd__", 0, other)
          /\ IF other.kind # "ustFile"
             THEN /\ sRet' = Raise("TypeError")
                  /\ UNCHANGED <<sObj, sName>>
             ELSE /\ sRet' = PyNone
                  /\ sObj' = sObj \o other.notes
                  /\ sName' = "None"
    /\ sPrev' = sObj
    /\ sPc' = "called"
    /\ UNCHANGED sOut

SeqNext ==
    \/ SeqQuantize /\ UNCHANGED <<codecVars, parserVars, nnVars>>
    \/ SeqRange /\ UNCHANGED <<codecVars, parserVars, nnVars>>
    \/ SeqAdd /\ UNCHANGED <<codecVars, parserVars, nnVars>>
    \/ SeqIAdd /\ UNCHANGED <<codecVars, parserVars, nnVars>>

----------------------------------------------------------------------------
(* dict(pairs): every item of pairs must have two elements; a key seen     *)
(* again keeps its place and takes the later value.  The result is a       *)
(* record: ret is None or the exception raised, d the dict.                *)

RECURSIVE DictOf(_)
DictOf(pairs) ==
    IF pairs = <<>> THEN <<>>
    ELSE LET last == pairs[Len(pairs)]
         IN  setitem(DictOf(SubSeq(pairs, 1, Len(pairs) - 1)),
                     last[1], PyStr(last[2]))

dict(pairs) ==
    IF \E i \in 1..Len(pairs) : Len(pairs[i]) # 2
    THEN [ret |-> Raise("ValueError"), d |-> <<>>]
    ELSE [ret |-> PyNone, d |-> DictOf(pairs)]

----------------------------------------------------------------------------
(* _attributeCheck and the constructors of ustNote and ustFile *)

NumberAttributes ==
    { <<"O","v","e","r","l","a","p">>, <<"P","r","e","U","t","t","e","r","a","n","c","e">>, <<"S","t","a","r","t","P","o","i","n","t">>, <<"T","e","m","p","o">>,
      <<"M","o","d","u","l","a","t","i","o","n">>, <<"I","n","t","e","n","s","i","t","y">>, <<"@","o","v","e","r","l","a","p">>, <<"@","p","r","e","u","t","t","r">>, <<"@","s","t","p","o","i","n","t">> }
IntAttributes == { <<"P","B","T","y","p","e">>, <<"P","B","S","t","a","r","t">> }
SeqAttributes == { <<"P","i","t","c","h","B","e","n","d">>, <<"P","B","W">>, <<"P","B","Y">>, <<"V","B","R">> }

\* isinstance(v, (int, float)), isinstance(v, int), isinstance(v, attributeSeq)
IsIntOrFloat(v) == v.k \in {"int", "float", "bool"}
IsInt(v) == v.k \in {"int", "bool"}
IsAttributeSeq(v) == v.k \in {"attributeSeq", "envelopeSeq", "PBSSeq"}

\* None, or the exception _attributeCheck raises
attributeCheck(recDict) ==
    IF ~({ <<"L","e","n","g","t","h">>, <<"L","y","r","i","c">>, <<"N","o","t","e","N","u","m">> } \subseteq Keys(recDict))
    THEN Raise("KeyError")
    ELSE IF ~ /\ IsIntOrFloat(getitem(recDict, <<"L","e","n","g","t","h">>))
              /\ getitem(recDict, <<"L","y","r","i","c">>).k = "str"
              /\ IsInt(getitem(recDict, <<"N","o","t","e","N","u","m">>))
    THEN Raise("TypeError")
    ELSE IF \E i \in 1..Len(recDict) :
              \/ recDict[i].key \in NumberAttributes /\ ~IsIntOrFloat(recDict[i].val)
              \/ recDict[i].key = <<"F","l","a","g","s">> /\ recDict[i].val.k # "str"
              \/ recDict[i].key = <<"E","n","v","e","l","o","p","e">> /\ recDict[i].val.k # "envelopeSeq"
              \/ recDict[i].key \in IntAttributes /\ ~IsInt(recDict[i].val)
              \/ recDict[i].key \in SeqAttributes /\ ~IsAttributeSeq(recDict[i].val)
              \/ recDict[i].key = <<"P","B","S">> /\ recDict[i].val.k # "PBSSeq"
    THEN Raise("TypeError")
    ELSE PyNone

UstFile(noteList, versionTuple, settingDict) ==
    [notes |-> noteList, version |-> versionTuple, setting |-> settingDict]
NoFile == UstFile(<<>>, <<>>, <<>>)

DefaultVersion == << <<"U","S","T"," ","V","e","r","s","i","o","n","1",".","2">>, <<"C","h","a","r","s","e","t","=","U","T","F","-","8">> >>

\* ustFile(noteIter, versionTuple, settingDict) with verify: every mapping
\* of noteIter is wrapped into a ustNote, which checks it
ustFile_init(noteIter, versionTuple, settingDict) ==
    LET checks == [i \in 1..Len(noteIter) |-> attributeCheck(noteIter[i])]
    IN  IF \E i \in 1..Len(checks) : IsExc(checks[i])
        THEN [ret |-> FirstExc(checks), obj |-> NoFile]
        ELSE [ret |-> PyNone,
              obj |-> UstFile(noteIter,
                              IF versionTuple = <<>> THEN DefaultVersion
                              ELSE versionTuple,
                              settingDict)]

----------------------------------------------------------------------------
(* ustFile.__repr__ and _saver *)

\* '{}={}'.format(key, value)
KeyValueLine(e) == e.key \o <<"=">> \o str(e.val)

\* '[#{:0>4d}]'.format(number)
NoteTag(number) ==
    LET digits == IntStr(number)
    IN  <<"[","#">> \o [i \in 1..(4 - Len(digits)) |-> "0"] \o digits \o <<"]">>

RECURSIVE NoteLines(_, _)
NoteLines(noteList, number) ==
    IF noteList = <<>> THEN <<>>
    ELSE << NoteTag(number) >>
           \o [j \in 1..Len(Head(noteList)) |-> KeyValueLine(Head(noteList)[j])]
           \o NoteLines(Tail(noteList), number + 1)

ustFile_repr(obj) ==
    LET fileContentList ==
            << <<"[","#","V","E","R","S","I","O","N","]">> >> \o obj.version
            \o << <<"[","#","S","E","T","T","I","N","G","]">> >>
            \o [j \in 1..Len(obj.setting) |-> KeyValueLine(obj.setting[j])]
            \o NoteLines(obj.notes, 0)
    IN  join(fileContentList, <<"\n">>)

----------------------------------------------------------------------------
(* _parser *)

\* the rows a text file yields when iterated: each keeps its newline
RECURSIVE FileRows(_)
FileRows(text) ==
    IF text = <<>> THEN <<>>
    ELSE IF \A i \in 1..Len(text) : text[i] # "\n" THEN <<text>>
    ELSE LET i == CHOOSE i \in 1..Len(text) :
                      text[i] = "\n" /\ \A j \in 1..(i-1) : text[j] # "\n"
         IN  <<SubSeq(text, 1, i)>> \o FileRows(SubSeq(text, i+1, Len(text)))

WordChars ==
    Digits \cup {"_"} \cup
    {"a","b","c","d","e","f","g","h","i","j","k","l","m",
     "n","o","p","q","r","s","t","u","v","w","x","y","z",
     "A","B","C","D","E","F","G","H","I","J","K","L","M",
     "N","O","P","Q","R","S","T","U","V","W","X","Y","Z"}

\* re.match('\[#\w{4}]', s): the pattern at the start of s
MatchesNoteTag(s) ==
    /\ Len(s) >= 7
    /\ s[1] = "[" /\ s[2] = "#" /\ s[7] = "]"
    /\ \A i \in 3..6 : s[i] \in WordChars

\* tuple((i.strip() for i in row.split('=')))
RowTuple(row) ==
    LET parts == split(row, "=") IN [i \in 1..Len(parts) |-> strip(parts[i])]

\* row.strip()[0:2] != '[#' and row.strip() != ''
IsDataRow(row) ==
    /\ SubSeq(strip(row), 1, IF Len(strip(row)) < 2 THEN Len(strip(row)) ELSE 2) # <<"[","#">>
    /\ strip(row) # <<>>

EvalAttributes ==
    { <<"L","e","n","g","t","h">>, <<"N","o","t","e","N","u","m">>, <<"O","v","e","r","l","a","p">>, <<"P","r","e","U","t","t","e","r","a","n","c","e">>, <<"S","t","a","r","t","P","o","i","n","t">>,
      <<"T","e","m","p","o">>, <<"M","o","d","u","l","a","t","i","o","n">>, <<"I","n","t","e","n","s","i","t","y">>, <<"@","o","v","e","r","l","a","p">>, <<"@","p","r","e","u","t","t","r">>,
      <<"@","s","t","p","o","i","n","t">>, <<"P","B","T","y","p","e">>, <<"P","B","S","t","a","r","t">> }

\* strategyDict.get(attribute) applied to the value; no policy, no change
Policy(attribute, value) ==
    CASE attribute \in EvalAttributes -> eval(value.s)
      [] attribute = <<"E","n","v","e","l","o","p","e">> -> envelopeSeq(value)
      [] attribute \in SeqAttributes -> attributeSeq(value)
      [] attribute = <<"P","B","S">> -> PBSSeq(value)
      [] OTHER -> value

\* the typing of one note: a value that is not '' goes through its policy,
\* an attribute whose value is '' is deleted
TypedNote(note) ==
    LET typed == [j \in 1..Len(note) |->
                     IF note[j].val # PyStr(<<>>)
                     THEN Entry(note[j].key, Policy(note[j].key, note[j].val))
                     ELSE note[j]]
        vals == [j \in 1..Len(note) |-> typed[j].val]
    IN  IF \E j \in 1..Len(vals) : IsExc(vals[j])
        THEN [ret |-> FirstExc(vals), d |-> <<>>]
        ELSE [ret |-> PyNone,
              d |-> SelectSeq(typed, LAMBDA e : e.val # PyStr(<<>>))]

\* settingDict['Tempo'] > 300
Over300(v) == IF v.k = "float" THEN v.n > 30000 ELSE v.n > 300

\* the typing of the [#SETTING] block.  A Tempo over 300 binds settingDict
\* to the int 120, and the test 'Tracks' in settingDict that follows raises
\* TypeError on an int.
SettingDict(settingList) ==
    LET made == dict(settingList)
        tempo == IF contains(made.d, <<"T","e","m","p","o">>)
                 THEN eval(getitem(made.d, <<"T","e","m","p","o">>).s) ELSE PyNone
        withTempo == IF contains(made.d, <<"T","e","m","p","o">>)
                     THEN setitem(made.d, <<"T","e","m","p","o">>, tempo) ELSE made.d
        tracks == IF contains(made.d, <<"T","r","a","c","k","s">>)
                  THEN eval(getitem(made.d, <<"T","r","a","c","k","s">>).s) ELSE PyNone
        withTracks == IF contains(made.d, <<"T","r","a","c","k","s">>)
                      THEN setitem(withTempo, <<"T","r","a","c","k","s">>, tracks) ELSE withTempo
        mode2 == IF contains(made.d, <<"M","o","d","e","2">>)
                 THEN eval(getitem(made.d, <<"M","o","d","e","2">>).s) ELSE PyNone
        withMode2 == IF contains(made.d, <<"M","o","d","e","2">>)
                     THEN setitem(withTracks, <<"M","o","d","e","2">>, mode2) ELSE withTracks
    IN  IF IsExc(made.ret) THEN made
        ELSE IF IsExc(tempo) THEN [ret |-> tempo, d |-> <<>>]
        ELSE IF contains(made.d, <<"T","e","m","p","o">>) /\ Over300(tempo)
        THEN [ret |-> Raise("TypeError"), d |-> <<>>]
        ELSE IF IsExc(tracks) THEN [ret |-> tracks, d |-> <<>>]
        ELSE IF IsExc(mode2) THEN [ret |-> mode2, d |-> <<>>]
        ELSE [ret |-> PyNone, d |-> withMode2]

\* what _parser returns once the rows are read: the typed notes, the version
\* tuple and dict(setting), the [#SETTING] block as it was read
ParserReturn(noteDicts, versionList, settingList) ==
    LET settingDict == SettingDict(settingList)
        typed == [i \in 1..Len(noteDicts) |-> TypedNote(noteDicts[i])]
        rets == [i \in 1..Len(noteDicts) |-> typed[i].ret]
    IN  IF IsExc(settingDict.ret) THEN [ret |-> settingDict.ret, file |-> NoFile]
        ELSE IF \E i \in 1..Len(rets) : IsExc(rets[i])
        THEN [ret |-> FirstExc(rets), file |-> NoFile]
        ELSE [ret |-> PyNone,
              file |-> UstFile([i \in 1..Len(noteDicts) |-> typed[i].d],
                               versionList, dict(settingList).d)]

----------------------------------------------------------------------------
(* Files for the reader.  A file is either saved from a ustFile object or  *)
(* written by hand: a [#VERSION] block, a [#SETTING] block, note blocks    *)
(* and, when trackend is set, the closing [#TRACKEND]; when blank is set   *)
(* an empty line precedes every tag.                                       *)

Pair(key, value) == <<key, value>>

Input(kind, obj, settingPairs, blocks, trackend, blank) ==
    [kind |-> kind, obj |-> obj, setting |-> settingPairs, blocks |-> blocks,
     trackend |-> trackend, blank |-> blank]
NoInput == Input("none", NoFile, <<>>, <<>>, FALSE, FALSE)

SavedNotes ==
    { Note(PyInt(480), <<"a">>, 60),
      Note(PyInt(240), <<"R">>, 62) \o << Entry(<<"P","B","S">>, PBSSeq(PyStr(<<"-","4","0",";","0">>))) >>,
      Note(PyInt(120), <<"l","a">>, 64)
          \o << Entry(<<"E","n","v","e","l","o","p","e">>, envelopeSeq(PyStr(<<"0",",","5",",","%",",","0">>))) >> }

SavedSettings ==
    { << Entry(<<"U","s","t","V","e","r","s","i","o","n">>, PyFloat(120)) >>,
      << Entry(<<"T","e","m","p","o">>, PyFloat(12000)), Entry(<<"T","r","a","c","k","s">>, PyInt(1)),
         Entry(<<"M","o","d","e","2">>, PyBool(TRUE)) >> }

SavedFiles ==
    { UstFile(n, DefaultVersion, s) :
          n \in UNION { [1..k -> SavedNotes] : k \in 0..MaxFileNotes },
          s \in SavedSettings }

SettingBlocks ==
    { << >>,
      << Pair(<<"T","r","a","c","k","s">>, <<"1">>) >>,
      << Pair(<<"T","e","m","p","o">>, <<"3","0","0">>), Pair(<<"M","o","d","e","2">>, <<"F","a","l","s","e">>) >>,
      << Pair(<<"T","e","m","p","o">>, <<"1","2","0",".","0","0">>), Pair(<<"T","r","a","c","k","s">>, <<"1">>),
         Pair(<<"M","o","d","e","2">>, <<"T","r","u","e">>), Pair(<<"P","r","o","j","e","c","t","N","a","m","e">>, <<"d","e","m","o">>) >>,
      << Pair(<<"T","e","m","p","o">>, <<"5","0","0","0","0","0",".","0","0">>), Pair(<<"T","r","a","c","k","s">>, <<"1">>),
         Pair(<<"M","o","d","e","2">>, <<"T","r","u","e">>), Pair(<<"P","r","o","j","e","c","t","N","a","m","e">>, <<"d","e","m","o">>) >>,
      << Pair(<<"T","r","a","c","k","s">>, <<"1">>), Pair(<<"P","r","o","j","e","c","t","N","a","m","e">>, <<"a","=","b">>) >> }

NoteBlocks ==
    { << >>,
      << Pair(<<"L","e","n","g","t","h">>, <<"4","8","0">>), Pair(<<"L","y","r","i","c">>, <<"a">>),
         Pair(<<"N","o","t","e","N","u","m">>, <<"6","0">>) >>,
      << Pair(<<"L","e","n","g","t","h">>, <<"2","4","0">>), Pair(<<"L","y","r","i","c">>, <<"R">>),
         Pair(<<"N","o","t","e","N","u","m">>, <<"6","2">>), Pair(<<"P","B","S">>, <<"-","4","0",";","0">>),
         Pair(<<"F","l","a","g","s">>, <<>>) >>,
      << Pair(<<"L","e","n","g","t","h">>, <<"4","8","0">>), Pair(<<"L","y","r","i","c">>, <<"a","=","b">>),
         Pair(<<"N","o","t","e","N","u","m">>, <<"6","0">>) >> }

WrittenFiles ==
    { Input("text", NoFile, s, b, t, e) :
          s \in SettingBlocks,
          b \in UNION { [1..k -> NoteBlocks] : k \in 0..MaxFileNotes },
          t \in BOOLEAN, e \in BOOLEAN }

PairLines(pairs) == [j \in 1..Len(pairs) |-> pairs[j][1] \o <<"=">> \o pairs[j][2]]

RECURSIVE BlockLines(_, _, _)
BlockLines(blocks, number, blank) ==
    IF blocks = <<>> THEN <<>>
    ELSE (IF blank THEN << <<>> >> ELSE <<>>)
           \o << NoteTag(number) >> \o PairLines(Head(blocks))
           \o BlockLines(Tail(blocks), number + 1, blank)

\* the text of a file written by hand; every line ends with a newline
WrittenText(input) ==
    LET lines ==
            << <<"[","#","V","E","R","S","I","O","N","]">>, <<"U","S","T"," ","V","e","r","s","i","o","n","1",".","2">> >>
            \o (IF input.blank THEN << <<>> >> ELSE <<>>)
            \o << <<"[","#","S","E","T","T","I","N","G","]">> >> \o PairLines(input.setting)
            \o BlockLines(input.blocks, 0, input.blank)
            \o (IF input.trackend
                THEN (IF input.blank THEN << <<>> >> ELSE <<>>) \o << <<"[","#","T","R","A","C","K","E","N","D","]">> >>
                ELSE <<>>)
    IN  join(lines, <<"\n">>) \o <<"\n">>

ParserLocalsInit ==
    /\ pRows = <<>> /\ notes = <<>> /\ singleNote = <<>>
    /\ version = <<>> /\ setting = <<>>
    /\ verRecord = FALSE /\ setRecord = FALSE /\ noteRecord = FALSE
    /\ noteCount = 0 /\ RecPos = 0

ParserIdle ==
    /\ pIn = NoInput /\ pFile = <<>> /\ ParserLocalsInit
    /\ pRet = NoFile /\ pLoaded = NoFile /\ pErr = PyNone /\ pPc = "idle"

ParserInit ==
    /\ \/ /\ \E obj \in SavedFiles :
                pIn = Input("object", obj, <<>>, <<>>, FALSE, FALSE)
          /\ pFile = <<>>
          /\ pPc = "new"
       \/ /\ pIn \in WrittenFiles
          /\ pFile = WrittenText(pIn)
          /\ pPc = "closed"
    /\ ParserLocalsInit
    /\ pRet = NoFile /\ pLoaded = NoFile /\ pErr = PyNone

\* obj.save(path): _saver writes str(obj)
ParserSave ==
    /\ pPc = "new"
    /\ pFile' = ustFile_repr(pIn.obj)
    /\ pPc' = "closed"
    /\ UNCHANGED <<pIn, parserLocals, pRet, pLoaded, pErr>>

\* _parser(path): the locals are set and the file is opened for reading
ParserOpen ==
    /\ pPc = "closed"
    /\ pRows' = FileRows(pFile)
    /\ pPc' = "reading"
    /\ UNCHANGED <<pIn, pFile, notes, singleNote, version, setting,
                   verRecord, setRecord, noteRecord, noteCount, RecPos,
                   pRet, pLoaded, pErr>>

\* one turn of "for row in file"
ParserReadRow ==
    /\ pPc = "reading" /\ pRows # <<>>
    /\ LET row == Head(pRows)
           stripped == strip(row)
           data == IsDataRow(row)
           flush == data /\ noteCount > RecPos /\ singleNote # <<>>
           trackend == stripped = <<"[","#","T","R","A","C","K","E","N","D","]">>
           made == dict(singleNote)
           tag == MatchesNoteTag(stripped)
       IN  IF (flush \/ trackend) /\ IsExc(made.ret)
           THEN /\ pErr' = made.ret
                /\ pPc' = "raised"
                /\ UNCHANGED <<parserLocals>>
           ELSE /\ pRows' = Tail(pRows)
                /\ version' = IF data /\ verRecord
                              THEN Append(version, stripped) ELSE version
                /\ setting' = IF data /\ setRecord
                              THEN Append(setting, RowTuple(row)) ELSE setting
                /\ RecPos' = IF data /\ noteCount > RecPos
                             THEN RecPos + 1 ELSE RecPos
                /\ notes' = IF flush \/ trackend
                            THEN Append(notes, made.d) ELSE notes
                /\ singleNote' =
                       (IF flush \/ trackend THEN <<>> ELSE singleNote)
                       \o (IF data /\ noteRecord THEN <<RowTuple(row)>> ELSE <<>>)
                /\ verRecord' = IF stripped = <<"[","#","V","E","R","S","I","O","N","]">> THEN TRUE
                                ELSE IF stripped = <<"[","#","S","E","T","T","I","N","G","]">> \/ tag THEN FALSE
                                ELSE verRecord
                /\ setRecord' = IF stripped = <<"[","#","S","E","T","T","I","N","G","]">> THEN TRUE
                                ELSE IF stripped = <<"[","#","V","E","R","S","I","O","N","]">> \/ tag THEN FALSE
                                ELSE setRecord
                /\ noteRecord' = IF tag THEN TRUE
                                 ELSE IF stripped = <<"[","#","V","E","R","S","I","O","N","]">>
                                         \/ stripped = <<"[","#","S","E","T","T","I","N","G","]">> THEN FALSE
                                 ELSE noteRecord
                /\ noteCount' = IF tag THEN noteCount + 1 ELSE noteCount
                /\ UNCHANGED <<pErr, pPc>>
    /\ UNCHANGED <<pIn, pFile, pRet, pLoaded>>

\* the rows are read: the [#SETTING] block and the notes are typed and
\* _parser returns
ParserFinish ==
    /\ pPc = "reading" /\ pRows = <<>>
    /\ LET r == ParserReturn(notes, version, setting)
       IN  /\ pErr' = r.ret
           /\ pRet' = r.file
           /\ pPc' = IF IsExc(r.ret) THEN "raised" ELSE "parsed"
    /\ UNCHANGED <<pIn, pFile, parserLocals, pLoaded>>

\* ustFile.open: cls(notes, version, setting)
ParserConstruct ==
    /\ pPc = "parsed"
    /\ LET r == ustFile_init(pRet.notes, pRet.version, pRet.setting)
       IN  /\ pErr' = r.ret
           /\ pLoaded' = r.obj
           /\ pPc' = IF IsExc(r.ret) THEN "raised" ELSE "opened"
    /\ UNCHANGED <<pIn, pFile, parserLocals, pRet>>

ParserNext ==
    \/ ParserSave /\ UNCHANGED <<codecVars, seqVars, nnVars>>
    \/ ParserOpen /\ UNCHANGED <<codecVars, seqVars, nnVars>>
    \/ ParserReadRow /\ UNCHANGED <<codecVars, seqVars, nnVars>>
    \/ ParserFinish /\ UNCHANGED <<codecVars, seqVars, nnVars>>
    \/ ParserConstruct /\ UNCHANGED <<codecVars, seqVars, nnVars>>

----------------------------------------------------------------------------
(* nn2ust (converter.py) *)

\* s.split(): the runs of characters between whitespace
RECURSIVE split_ws(_)
split_ws(s) ==
    LET t == lstrip(s)
    IN  IF t = <<>> THEN <<>>
        ELSE IF \A i \in 1..Len(t) : t[i] \notin Whitespace THEN <<t>>
        ELSE LET i == CHOOSE i \in 1..Len(t) :
                          t[i] \in Whitespace
                          /\ \A j \in 1..(i-1) : t[j] \notin Whitespace
             IN  <<SubSeq(t, 1, i-1)>> \o split_ws(SubSeq(t, i+1, Len(t)))

\* int(s) and float(s) of a decimal text
int(s) ==
    LET v == eval(strip(s)) IN IF v.k = "int" THEN v ELSE Raise("ValueError")
float(s) ==
    LET v == eval(strip(s))
    IN  IF v.k = "int" THEN PyFloat(100 * v.n)
        ELSE IF v.k = "float" THEN v ELSE Raise("ValueError")

\* the header line: ustHeader = {'Tempo': float(header[0])}
HeaderDict(line) ==
    LET header == split_ws(strip(line))
    IN  IF header = <<>> THEN [ret |-> Raise("IndexError"), d |-> <<>>]
        ELSE IF IsExc(float(header[1])) THEN [ret |-> float(header[1]), d |-> <<>>]
        ELSE [ret |-> PyNone, d |-> << Entry(<<"T","e","m","p","o">>, float(header[1])) >>]

\* the rest that fills a gap of the given length
RestNote(gap) == Note(PyInt(gap * 60), <<"R">>, 60)

\* the pitch list of a row: (50 - pitch) / 10 for each sample, and with
\* shortenPitch only the samples that are not 0 or sit on a multiple of it
PitchList(text, shortenPitch) ==
    LET samples == split(text, ",")
        all == [i \in 1..Len(samples) |-> PyFloat((50 - int(samples[i]).n) * 10)]
        kept == {i \in 1..Len(all) :
                    ~(all[i].n = 0 /\ (i - 1) % shortenPitch # 0)}
        RECURSIVE Pick(_)
        Pick(i) == IF i > Len(all) THEN <<>>
                   ELSE (IF i \in kept THEN <<all[i]>> ELSE <<>>) \o Pick(i + 1)
    IN  IF shortenPitch = 0 THEN all ELSE Pick(1)

\* the ustNote built from a row: the sequence classes are called with a
\* list (VBR, PBY, PBS) and a generator (PBW), none of which has .split
RowNote(nnNote, chinese, shortenPitch) ==
    LET nnPitchList == PitchList(nnNote[13], shortenPitch)
        vbr == attributeSeq(PyList(<<int(nnNote[9]), int(nnNote[11]),
                                     int(nnNote[10]), PyInt(0), PyInt(0),
                                     PyInt(0), PyInt(0), PyInt(0)>>))
        pbw == attributeSeq(Val("generator", 0, <<>>, <<>>))
        pby == attributeSeq(PyList(nnPitchList))
        pbs == PBSSeq(PyList(<<PyInt(0), PyInt(0)>>))
        made == <<vbr, pbw, pby, pbs>>
        note == Note(PyInt(int(nnNote[4]).n * 60),
                     IF chinese THEN nnNote[1] ELSE nnNote[2],
                     83 - int(nnNote[5]).n)
                \o << Entry(<<"V","B","R">>, vbr), Entry(<<"P","B","W">>, pbw),
                      Entry(<<"P","B","Y">>, pby), Entry(<<"P","B","S">>, pbs) >>
    IN  IF \E i \in 1..4 : IsExc(made[i]) THEN [ret |-> FirstExc(made), d |-> <<>>]
        ELSE IF IsExc(attributeCheck(note))
        THEN [ret |-> attributeCheck(note), d |-> <<>>]
        ELSE [ret |-> PyNone, d |-> note]

(* NiaoNiao documents: a header line, the line with the number of notes    *)
(* and one row per record.  The records do not overlap: the first starts   *)
(* at 0 or later and each next one at the end of the one before or later.  *)

FirstStarts == {0, 2}
Gaps == {0, 3}
Durations == {1, 4}

Record(start, duration) == [start |-> start, duration |-> duration]

RECURSIVE RecordLists(_)
RecordLists(n) ==
    IF n = 0 THEN { <<>> }
    ELSE RecordLists(n - 1) \cup
         { Append(r, Record(IF r = <<>> THEN s
                            ELSE r[Len(r)].start + r[Len(r)].duration + g, d)) :
               r \in { x \in RecordLists(n - 1) : Len(x) = n - 1 },
               s \in FirstStarts, g \in Gaps, d \in Durations }

RowText(record) ==
    join(<< <<"t","a">>, <<"d","a">>, IntStr(record.start), IntStr(record.duration),
            <<"3","3">>, <<"0">>, <<"0">>, <<"0">>, <<"1">>, <<"2">>, <<"3">>, <<"0">>,
            <<"5","0",",","4","5",",","5","0">> >>, <<" ">>) \o <<"\n">>

Document(records) ==
    << <<"1","2","0",".","0"," ","4","/","4","\n">>, IntStr(Len(records)) \o <<"\n">> >>
    \o [i \in 1..Len(records) |-> RowText(records[i])]

NNInput(records, chinese, shortenPitch) ==
    [records |-> records, chinese |-> chinese, shortenPitch |-> shortenPitch]

NNIdle ==
    /\ nnIn = NNInput(<<>>, FALSE, 0) /\ nnIter = <<>> /\ ustHeader = <<>>
    /\ ustNoteList = <<>> /\ noteLength = 0 /\ initialParse = FALSE
    /\ nnRet = NoFile /\ nnErr = PyNone /\ nnPc = "idle"

NNInit ==
    /\ nnIn \in { NNInput(r, c, k) :
                     r \in RecordLists(MaxRecords), c \in BOOLEAN, k \in {0, 2} }
    /\ nnIter = Document(nnIn.records)
    /\ ustHeader = <<>> /\ ustNoteList = <<>>
    /\ noteLength = 0 /\ initialParse = FALSE
    /\ nnRet = NoFile /\ nnErr = PyNone /\ nnPc = "called"

\* the header is parsed, the line with the number of notes is skipped
NNHeader ==
    /\ nnPc = "called"
    /\ LET h == HeaderDict(nnIter[1])
       IN  IF IsExc(h.ret)
           THEN /\ nnErr' = h.ret /\ nnPc' = "raised"
                /\ UNCHANGED <<nnIter, ustHeader, ustNoteList, noteLength,
                               initialParse>>
           ELSE /\ ustHeader' = h.d
                /\ nnIter' = SubSeq(nnIter, 3, Len(nnIter))
                /\ ustNoteList' = <<>>
                /\ noteLength' = 0
                /\ initialParse' = TRUE
                /\ nnPc' = "rows"
                /\ UNCHANGED nnErr
    /\ UNCHANGED <<nnIn, nnRet>>

\* one turn of "for row in nnIter"
NNRow ==
    /\ nnPc = "rows" /\ nnIter # <<>>
    /\ LET nnNote == split_ws(strip(Head(nnIter)))
           noteStart == int(nnNote[3]).n
           currentNoteLength == int(nnNote[4]).n
           consumed == IF ~initialParse THEN noteLength + currentNoteLength
                       ELSE noteLength
           gap == consumed < noteStart
           withRest == IF gap
                       THEN Append(ustNoteList, RestNote(noteStart - consumed))
                       ELSE ustNoteList
           made == RowNote(nnNote, nnIn.chinese, nnIn.shortenPitch)
       IN  IF IsExc(made.ret)
           THEN /\ nnErr' = made.ret /\ nnPc' = "raised"
                /\ initialParse' = FALSE
                /\ noteLength' = IF gap THEN noteStart ELSE consumed
                /\ ustNoteList' = withRest
                /\ UNCHANGED nnIter
           ELSE /\ nnIter' = Tail(nnIter)
                /\ initialParse' = FALSE
                /\ noteLength' = IF gap THEN noteStart ELSE consumed
                /\ ustNoteList' = Append(withRest, made.d)
                /\ UNCHANGED <<nnErr, nnPc>>
    /\ UNCHANGED <<nnIn, ustHeader, nnRet>>

\* return ustFile(ustNoteList, settingDict=ustHeader)
NNReturn ==
    /\ nnPc = "rows" /\ nnIter = <<>>
    /\ LET r == ustFile_init(ustNoteList, <<>>, ustHeader)
       IN  /\ nnErr' = r.ret
           /\ nnRet' = r.obj
           /\ nnPc' = IF IsExc(r.ret) THEN "raised" ELSE "returned"
    /\ UNCHANGED <<nnIn, nnIter, ustHeader, ustNoteList, noteLength, initialParse>>

NNNext ==
    \/ NNHeader /\ UNCHANGED <<codecVars, seqVars, parserVars>>
    \/ NNRow /\ UNCHANGED <<codecVars, seqVars, parserVars>>
    \/ NNReturn /\ UNCHANGED <<codecVars, seqVars, parserVars>>

----------------------------------------------------------------------------
(* Specifications *)

InitCodec == CodecInit /\ SeqIdle /\ ParserIdle /\ NNIdle
SpecCodec == InitCodec /\ [][CodecNext]_vars

InitSeq == SeqInit /\ CodecIdle /\ ParserIdle /\ NNIdle
SpecSeq == InitSeq /\ [][SeqNext]_vars

InitParser == ParserInit /\ CodecIdle /\ SeqIdle /\ NNIdle
SpecParser == InitParser /\ [][ParserNext]_vars

InitNN == NNInit /\ CodecIdle /\ SeqIdle /\ ParserIdle
SpecNN == InitNN /\ [][NNNext]_vars

----------------------------------------------------------------------------
(* Claims *)

Abs(x) == IF x < 0 THEN 0 - x ELSE x

\* two dicts with the same keys and an equal value under each
SameDict(a, b) ==
    /\ Keys(a) = Keys(b)
    /\ \A key \in Keys(a) : getitem(a, key) = getitem(b, key)

\* C1, as claimed: a Sequence with n >= 1 Notes, saved and opened again,
\* yields an equal Sequence: the same n Notes in order with equal attribute
\* values, the same version lines and an equal settings mapping.
C1_SaveOpenRoundTrip ==
    (pIn.kind = "object" /\ Len(pIn.obj.notes) >= 1
         /\ pPc \in {"opened", "raised"}) =>
        /\ pPc = "opened"
        /\ Len(pLoaded.notes) = Len(pIn.obj.notes)
        /\ \A i \in 1..Len(pLoaded.notes) :
              SameDict(pLoaded.notes[i], pIn.obj.notes[i])
        /\ pLoaded.version = pIn.obj.version
        /\ SameDict(pLoaded.setting, pIn.obj.setting)

\* C2, as claimed: the settings mapping _parser returns holds Tempo, Tracks
\* and Mode2 as numbers or booleans, not as the text read from the file,
\* and every other key as its raw string.
C2_SettingsCoerced ==
    pPc = "parsed" =>
        \A j \in 1..Len(pRet.setting) :
            IF pRet.setting[j].key \in { <<"T","e","m","p","o">>, <<"T","r","a","c","k","s">>, <<"M","o","d","e","2">> }
            THEN IsNumber(pRet.setting[j].val)
            ELSE pRet.setting[j].val.k = "str"

\* the [#SETTING] block of a hand-written file has a Tempo over 300
C3_TempoOver300 ==
    /\ pIn.kind = "text"
    /\ \E j \in 1..Len(pIn.setting) :
          pIn.setting[j][1] = <<"T","e","m","p","o">> /\ Over300(eval(pIn.setting[j][2]))

\* C3, as claimed: with a Tempo over 300 parsing completes without error
\* and the settings are a mapping in which Tempo is 120 and every other key
\* read from the file is kept.
C3_TempoClamped ==
    (C3_TempoOver300 /\ pPc \in {"parsed", "raised"}) =>
        /\ pPc = "parsed"
        /\ getitem(pRet.setting, <<"T","e","m","p","o">>) = PyInt(120)
        /\ Keys(pRet.setting) = {pIn.setting[j][1] : j \in 1..Len(pIn.setting)}

\* the output of the adapter as the claim describes it: before record i a
\* rest of 60 * gap exactly when the record starts after the end of the one
\* before (0 for the first), then the Note of 60 * duration
RECURSIVE C5_Expected(_, _)
C5_Expected(records, end) ==
    IF records = <<>> THEN <<>>
    ELSE LET r == Head(records)
         IN  (IF r.start > end THEN << 60 * (r.start - end) >> ELSE <<>>)
               \o << 60 * r.duration >>
               \o C5_Expected(Tail(records), r.start + r.duration)

\* C5, as claimed: for records that do not overlap the adapter returns a
\* Sequence in which the Lengths before the Note of record i add up to
\* 60 * start_i, a rest being inserted exactly where a record starts after
\* the end of the one before.
C5_NoUnaccountedSilence ==
    (nnIn.records # <<>> /\ nnPc \in {"returned", "raised"}) =>
        /\ nnPc = "returned"
        /\ [i \in 1..Len(nnRet.notes) |->
               getitem(nnRet.notes[i], <<"L","e","n","g","t","h">>).n]
             = C5_Expected(nnIn.records, 0)

\* C10, as claimed: a file of a [#VERSION] block, a [#SETTING] block, n >= 0
\* note tags with their key=value lines and a closing [#TRACKEND] yields
\* exactly n records in tag order, record i holding exactly the lines
\* between the i-th tag and the next tag.
C10_OneRecordPerTag ==
    (pIn.kind = "text" /\ pIn.trackend /\ pPc = "reading" /\ pRows = <<>>) =>
        /\ Len(notes) = Len(pIn.blocks)
        /\ \A i \in 1..Len(notes) :
              notes[i] = [j \in 1..Len(pIn.blocks[i]) |->
                             Entry(pIn.blocks[i][j][1], PyStr(pIn.blocks[i][j][2]))]

\* C11, as claimed: every line read in the [#SETTING] block or in a note
\* block is split on its first '=' only, so each item of the settings
\* buffer and of the note buffer is the pair of the key and of all the text
\* after the first '=' (the keys written here hold no '=', so that pair is
\* the one the line was written from), and a line with a further '=' does
\* not make the parser fail with ValueError when the buffer becomes a dict.
C11_SplitOnFirstEquals ==
    (pIn.kind = "text" /\ pPc \in {"reading", "parsed", "raised"}) =>
        /\ setting = SubSeq(pIn.setting, 1, Len(setting))
        /\ \A j \in 1..Len(singleNote) :
              \E i \in 1..Len(pIn.blocks) : \E k \in 1..Len(pIn.blocks[i]) :
                  singleNote[j] = pIn.blocks[i][k]
        /\ ~IsExc(dict(setting).ret)
        /\ ~IsExc(dict(singleNote).ret)
        /\ pErr # Raise("ValueError")

\* the number of fields a string splits into on ';'
C4_FieldCount == 1 + Cardinality({i \in 1..Len(cIn.s) : cIn.s[i] = ";"})
\* PBSSeq was called on a string whose fields are numbers or empty
C4_Called ==
    /\ cCodec = "PBSSeq" /\ cPc \in {"built", "raised"}
    /\ \A i \in 1..Len(cIn.s) : cIn.s[i] # "%"

\* C4, as claimed: constructing an OffsetPair succeeds exactly when the
\* string has two fields, and fails with ValueError for one field and for
\* three or more.
C4_ExactlyTwoFields ==
    C4_Called =>
        IF C4_FieldCount = 2 THEN cVal.k = "PBSSeq" ELSE cVal = Raise("ValueError")

\* C4, amended: constructing an OffsetPair fails with ValueError exactly
\* when the string has three or more fields; with one or two fields it
\* succeeds and holds one number per field, an empty field counting as 0.
C4_AtMostTwoFields ==
    C4_Called =>
        IF C4_FieldCount >= 3 THEN cVal = Raise("ValueError")
        ELSE /\ cVal.k = "PBSSeq"
             /\ Len(cVal.l) = C4_FieldCount
             /\ \A i \in 1..Len(cVal.l) : IsNumber(cVal.l[i])
             /\ cIn.s = <<>> => cVal.l = <<PyInt(0)>>
             /\ cIn.s = <<";">> => cVal.l = <<PyInt(0), PyInt(0)>>

\* a one-field string was accepted
C4_Witness ==
    /\ C4_Called /\ cPc = "built"
    /\ cIn.s = <<"-","3">> /\ cVal.l = <<PyInt(0 - 3)>>

\* C8: a codec value obtained by parsing a string, printed and parsed
\* again with the same codec, yields an equal value, and the '%' sentinel
\* of an envelope is printed and read back at its position.
C8_CodecRoundTrip ==
    cPc = "rebuilt" =>
        /\ cBack = cVal
        /\ \A i \in 1..Len(cVal.l) :
              cVal.l[i] = PyStr(<<"%">>) =>
                  /\ split(cText.s, ",")[i] = <<"%">>
                  /\ cBack.l[i] = PyStr(<<"%">>)

\* an envelope with the sentinel after a number whose text was normalised
C8_Witness ==
    /\ cPc = "rebuilt" /\ cCodec = "envelopeSeq"
    /\ cIn.s = <<"2",".","5","0",",","%",",","5">> /\ cText.s = <<"2",".","5",",","%",",","5">>
    /\ cBack.l[2] = PyStr(<<"%">>)

Lyric(note) == getitem(note, <<"L","y","r","i","c">>).s
NoteNum(note) == getitem(note, <<"N","o","t","e","N","u","m">>).n
Length(note) == getitem(note, <<"L","e","n","g","t","h">>)
\* a numeric value in hundredths
Hundredths(v) == IF v.k = "float" THEN v.n ELSE 100 * v.n
KeyOrder(note) == [j \in 1..Len(note) |-> note[j].key]

C6_Called == sPc = "called" /\ sCall.op \in {"__add__", "__iadd__"}

\* C6, as claimed: s + other and s += other raise TypeError if and only if
\* other is not a Sequence; with two Sequences the result is a Sequence
\* holding the Notes of s followed by the Notes of other.
C6_ConcatIffSequence ==
    C6_Called =>
        IF sCall.other.kind # "ustFile" THEN sRet = Raise("TypeError")
        ELSE /\ ~IsExc(sRet)
             /\ sCall.op = "__add__" => sOut = sPrev \o sCall.other.notes
             /\ sCall.op = "__iadd__" =>
                    sName = "ustFile" /\ sObj = sPrev \o sCall.other.notes

\* C7: after quantize(standard), standard > 0, every Length is the multiple
\* of standard nearest to the old Length, the even multiple on a tie, and
\* the list holds the same Notes in the same order, a negative Length
\* included, with no other attribute changed.
C7_QuantizeRoundsHalfEven ==
    (sPc = "called" /\ sCall.op = "quantize" /\ sCall.standard > 0) =>
        /\ sRet = PyNone
        /\ Len(sObj) = Len(sPrev)
        /\ \A i \in 1..Len(sPrev) :
              LET new == Length(sObj[i])
                  d == Abs(Hundredths(Length(sPrev[i])) - 100 * new.n)
              IN  /\ new.k = "int"
                  /\ new.n % sCall.standard = 0
                  /\ 2 * d <= 100 * sCall.standard
                  /\ 2 * d = 100 * sCall.standard =>
                         (new.n \div sCall.standard) % 2 = 0
                  /\ KeyOrder(sObj[i]) = KeyOrder(sPrev[i])
                  /\ \A j \in 1..Len(sPrev[i]) :
                         sPrev[i][j].key # <<"L","e","n","g","t","h">> => sObj[i][j] = sPrev[i][j]

\* 180 -> 240 and 60 -> 0 on a tie, and a Note kept with Length -240
C7_Witness ==
    /\ sPc = "called" /\ sCall.op = "quantize" /\ sCall.standard = 120
    /\ Len(sObj) = 3
    /\ Length(sPrev[1]) = PyInt(180) /\ Length(sObj[1]) = PyInt(240)
    /\ Length(sPrev[2]) = PyInt(60) /\ Length(sObj[2]) = PyInt(0)
    /\ Length(sPrev[3]) = PyInt(0 - 180) /\ Length(sObj[3]) = PyInt(0 - 240)

C9_Voiced ==
    {i \in 1..Len(sPrev) : Lyric(sPrev[i]) \notin { <<>>, <<" ">>, <<"r">>, <<"R">> }}

\* C9: range() returns (maximum NoteNum, minimum NoteNum) over the voiced
\* Notes only, raises when there is no voiced Note, and leaves the Sequence
\* unchanged.
C9_RangeOverVoiced ==
    (sPc = "called" /\ sCall.op = "range") =>
        /\ sObj = sPrev /\ sName = "ustFile"
        /\ IF C9_Voiced = {} THEN IsExc(sRet)
           ELSE /\ sRet.k = "tuple" /\ Len(sRet.l) = 2
                /\ \A i \in C9_Voiced :
                       /\ NoteNum(sPrev[i]) <= sRet.l[1].n
                       /\ NoteNum(sPrev[i]) >= sRet.l[2].n
                /\ \E i \in C9_Voiced : PyInt(NoteNum(sPrev[i])) = sRet.l[1]
                /\ \E i \in C9_Voiced : PyInt(NoteNum(sPrev[i])) = sRet.l[2]

\* a rest holds the highest pitch of the list and is skipped
C9_Witness ==
    /\ sPc = "called" /\ sCall.op = "range"
    /\ sRet.k = "tuple" /\ sRet.l = <<PyInt(64), PyInt(60)>>
    /\ \E i \in 1..Len(sPrev) :
          NoteNum(sPrev[i]) = 72 /\ Lyric(sPrev[i]) = <<"R">>

====
